---- MODULE Spec2Model ----
(***************************************************************************)
(* ror_wikidata_claim_overlap.py as a state machine.                       *)
(*                                                                         *)
(* main() is a linear pipeline (load claims, build query, create the pool, *)
(* compute offsets, pool.map over the offsets, merge, write CSV files,     *)
(* close and join the pool).  The pool's worker processes run worker()     *)
(* concurrently; the SPARQL endpoint and the input file are the            *)
(* environment.                                                            *)
(*                                                                         *)
(* Python values are modelled as follows:                                  *)
(*   str            a TLA+ string; a string that the code takes apart      *)
(*                  (the item URI) is a sequence of one-character strings; *)
(*                  a string the code puts together (f-strings) is the     *)
(*                  tuple of its parts                                     *)
(*   None           the value None below                                   *)
(*   dict           [keys |-> insertion order, val |-> key -> value]       *)
(*   claims (dict)  the sequence of its items [id, name], ids distinct     *)
(***************************************************************************)
EXTENDS Integers, Sequences, FiniteSets, TLC

VARIABLES
    pc,          \* position of main(): the statement that runs next
    args,        \* parse_arguments(): [input_file, endpoint, limit, offset]
    locals,      \* names bound in main()'s frame ('pool' in locals())
    claims,      \* main's claims
    query,       \* main's query
    pool,        \* the multiprocessing.Pool: "none", "open", "closed", "joined"
    offsets,     \* main's offsets (the range, as a sequence)
    nextTask,    \* pool.map: index of the next task no worker has taken
    inflight,    \* pool.map: indices of the tasks a worker is running
    requests,    \* HTTP GETs issued so far: OFFSET of the request -> how many
    results,     \* pool.map: task index -> what worker() returned (a dict),
                 \* or the exception it raised
    all_data,    \* main's all_data
    dirs,        \* the file system: directories that exist
    files,       \* the file system: file name -> rows written
    log          \* the logger: message -> how many records carry it

vars == <<pc, args, locals, claims, query, pool, offsets, nextTask,
          inflight, requests, results, all_data, dirs, files, log>>

(***************************************************************************)
(* Program constants and bounds of the model.                              *)
(***************************************************************************)
NumPages == 20

PoolSize == 5

MaxRows == 4

MaxClaims == 2

MaxSeq == 3

None == "<None>"

(***************************************************************************)
(* Python helpers.                                                         *)
(***************************************************************************)
EmptyDict == [keys |-> <<>>, val |-> <<>>]

Exception == [exception |-> TRUE]

IsException(v) == "exception" \in DOMAIN v

\* bag[k] += 1
Count(bag, k) ==
    IF k \in DOMAIN bag THEN [bag EXCEPT ![k] = @ + 1] ELSE bag @@ (k :> 1)

\* logger.error / logger.info, once per message of msgs
RECURSIVE LogAll(_, _, _)
LogAll(lg, msgs, i) ==
    IF i > Len(msgs) THEN lg ELSE LogAll(Count(lg, msgs[i]), msgs, i + 1)

Logged(lg, msg) == msg \in DOMAIN lg

DictSet(d, k, v) ==
    IF k \in DOMAIN d.val
    THEN [keys |-> d.keys, val |-> [d.val EXCEPT ![k] = v]]
    ELSE [keys |-> Append(d.keys, k), val |-> d.val @@ (k :> v)]

RECURSIVE DictUpdateFrom(_, _, _)
DictUpdateFrom(d, e, i) ==
    IF i > Len(e.keys) THEN d
    ELSE DictUpdateFrom(DictSet(d, e.keys[i], e.val[e.keys[i]]), e, i + 1)

DictUpdate(d, e) == DictUpdateFrom(d, e, 1)

\* Mutant: only None counts as no value.
Truthy_NotNone(v) == v # None

Truthy(v) == v # None /\ v # ""

Min(a, b) == IF a < b THEN a ELSE b

\* range(start, stop, step) as a sequence; step = 0 raises ValueError.
RangeLen(start, stop, step) ==
    IF step > 0 THEN (IF stop > start THEN (stop - start + step - 1) \div step ELSE 0)
    ELSE (IF stop < start THEN (start - stop + (-step) - 1) \div (-step) ELSE 0)

\* Mutant: the stop value is included.
Range_Inclusive(start, stop, step) ==
    [k \in 1..(RangeLen(start, stop, step) + 1) |-> start + (k - 1) * step]

Range(start, stop, step) ==
    [k \in 1..RangeLen(start, stop, step) |-> start + (k - 1) * step]

\* s.split("/") on a string given as a sequence of characters.
RECURSIVE SplitFrom(_, _, _, _)
SplitFrom(s, i, cur, acc) ==
    IF i > Len(s) THEN Append(acc, cur)
    ELSE IF s[i] = "/" THEN SplitFrom(s, i + 1, <<>>, Append(acc, cur))
    ELSE SplitFrom(s, i + 1, Append(cur, s[i]), acc)

Split(s) == SplitFrom(s, 1, <<>>, <<>>)

ClaimNames(cl) == {cl[i].name : i \in 1..Len(cl)}

(***************************************************************************)
(* Inputs.  A path or URL is identified with what is found there:          *)
(* args.input_file is the file (unreadable, not JSON, or a JSON object),   *)
(* args.endpoint is the endpoint (the rows the query selects and the       *)
(* offsets at which the request fails).                                    *)
(***************************************************************************)
Chars(q) == <<"w", "/", "Q", q>>

Row(ror, q, a, b) ==
    ("rorID" :> [value |-> ror]) @@ ("item" :> [value |-> Chars(q)])
    @@ (IF a = None THEN <<>> ELSE ("a" :> [value |-> a]))
    @@ (IF b = None THEN <<>> ELSE ("b" :> [value |-> b]))

\* A row without ?rorID: a malformed response.
BadRow == ("item" :> [value |-> Chars("9")])

Catalog ==
    << Row("r1", "1", "x", None), Row("r1", "2", "", "y"),
       Row("r2", "3", None, "z"), Row("r1", "4", "u", None),
       Row("r2", "5", "v", None), Row("r3", "6", None, None) >>

Rows == SubSeq(Catalog, 1, Min(MaxRows, Len(Catalog)))

\* An endpoint that answers every well-formed request, and one that fails
\* at OFFSET 1 and whose last row is malformed.
Endpoints ==
    { [rows |-> Rows, down |-> {}],
      [rows |-> Append(Rows, BadRow), down |-> {1}] }

TwoClaims == << [id |-> <<"P", 1>>, name |-> "a"], [id |-> <<"P", 2>>, name |-> "b"] >>

Unreadable == [kind |-> "unreadable", object |-> <<>>]

Malformed == [kind |-> "malformed", object |-> <<>>]

JsonObject(cl) == [kind |-> "object", object |-> cl]

InputFiles == {Unreadable, Malformed, JsonObject(TwoClaims)}

Limits == {-1, 0, 1, 2}

Offsets == {0, 1}

\* Every claim spec of at most MaxClaims entries: distinct ids, any names.
Ids == {<<"P", i>> : i \in 1..MaxClaims}

Names == {"a", "b"}

ClaimSpecs ==
    UNION { { cl \in [1..n -> [id : Ids, name : Names]] :
                \A i, j \in 1..n : i # j => cl[i].id # cl[j].id } : n \in 0..MaxClaims }

\* Every result list of at most MaxSeq rows over a pool of rows.
RowPool ==
    { Row("r2", "1", "x", None), Row("r1", "2", "", "y"), Row("r2", "3", None, "z") }

RowLists == UNION { [1..n -> RowPool] : n \in 0..MaxSeq }

(***************************************************************************)
(* parse_json_claims: the input file is unreadable, is not JSON, or holds  *)
(* a JSON object.                                                          *)
(***************************************************************************)
\* Mutant: the error is logged and not raised again.
parse_json_claims_Swallow(file) ==
    CASE file.kind = "malformed" ->
           [raised |-> FALSE, value |-> <<>>,
            logged |-> <<"ERROR: Error parsing JSON file">>]
      [] file.kind = "unreadable" ->
           [raised |-> FALSE, value |-> <<>>,
            logged |-> <<"ERROR: Error reading file">>]
      [] OTHER ->
           [raised |-> FALSE, value |-> file.object, logged |-> <<>>]

parse_json_claims(file) ==
    CASE file.kind = "malformed" ->
           [raised |-> TRUE, value |-> <<>>,
            logged |-> <<"ERROR: Error parsing JSON file">>]
      [] file.kind = "unreadable" ->
           [raised |-> TRUE, value |-> <<>>,
            logged |-> <<"ERROR: Error reading file">>]
      [] OTHER ->
           [raised |-> FALSE, value |-> file.object, logged |-> <<>>]

(***************************************************************************)
(* generate_sparql_query: the query text as its select list and the        *)
(* patterns of its WHERE block.                                            *)
(***************************************************************************)
Var(name) == <<"?", name>>

Wdt(id) == <<"wdt:", id>>

P6782 == <<"P", 6782>>

RECURSIVE QueryLoop(_, _, _)
QueryLoop(cl, i, q) ==
    IF i > Len(cl) THEN q
    ELSE QueryLoop(cl, i + 1,
           [select |-> Append(q.select, Var(cl[i].name)),
            where  |-> Append(q.where,
                              [kind |-> "OPTIONAL", s |-> Var("item"),
                               p |-> Wdt(cl[i].id), o |-> Var(cl[i].name)])])

\* Mutant: the loop starts at the second claim.
generate_sparql_query_SkipFirst(cl) ==
    QueryLoop(cl, 2,
        [select |-> <<Var("item"), Var("rorID")>>,
         where  |-> <<[kind |-> "TRIPLE", s |-> Var("item"),
                       p |-> Wdt(P6782), o |-> Var("rorID")]>>])

generate_sparql_query(cl) ==
    QueryLoop(cl, 1,
        [select |-> <<Var("item"), Var("rorID")>>,
         where  |-> <<[kind |-> "TRIPLE", s |-> Var("item"),
                       p |-> Wdt(P6782), o |-> Var("rorID")]>>])

(***************************************************************************)
(* The endpoint.  It holds the rows the query selects and serves           *)
(* LIMIT l OFFSET o by slicing them; SPARQL's LIMIT and OFFSET take an     *)
(* unsigned integer, so a negative one is a malformed query (HTTP 400).    *)
(* endpoint.down is the set of offsets at which the request fails.         *)
(***************************************************************************)
HttpFails(ep, limit, offset) ==
    limit < 0 \/ offset < 0 \/ offset \in ep.down

Bindings(ep, limit, offset) ==
    SubSeq(ep.rows, offset + 1, Min(offset + limit, Len(ep.rows)))

\* execute_sparql_query: logs and re-raises a RequestException.
execute_sparql_query(ep, limit, offset) ==
    IF HttpFails(ep, limit, offset)
    THEN [raised |-> TRUE, value |-> <<>>,
          logged |-> <<"ERROR: Error executing SPARQL query">>]
    ELSE [raised |-> FALSE, value |-> Bindings(ep, limit, offset), logged |-> <<>>]

(***************************************************************************)
(* process_wikidata_results                                                *)
(***************************************************************************)
BindingGet(result, name) ==
    IF name \in DOMAIN result THEN result[name].value ELSE None

Last(s) == s[Len(s)]

RecordOf(result, cl) ==
    [k \in {"wikidata_id"} \cup ClaimNames(cl) |->
        IF k \in ClaimNames(cl) THEN BindingGet(result, k)
        ELSE Last(Split(result["item"].value))]

RECURSIVE ProcessLoop(_, _, _, _)
ProcessLoop(rs, cl, i, processed_data) ==
    IF i > Len(rs) THEN [raised |-> FALSE, value |-> processed_data]
    ELSE IF ~ ({"rorID", "item"} \subseteq DOMAIN rs[i])
    THEN [raised |-> TRUE, value |-> EmptyDict]
    ELSE ProcessLoop(rs, cl, i + 1,
           DictSet(processed_data, rs[i]["rorID"].value, RecordOf(rs[i], cl)))

process_wikidata_results(rs, cl) == ProcessLoop(rs, cl, 1, EmptyDict)

(***************************************************************************)
(* worker: what it returns and what it logs.                               *)
(***************************************************************************)
\* Mutant: no try/except around the fetch and the transform.
worker_NoCatch(ep, cl, limit, offset) ==
    LET fetched == execute_sparql_query(ep, limit, offset)
        processed == process_wikidata_results(fetched.value, cl)
    IN  IF fetched.raised \/ processed.raised
        THEN [raised |-> TRUE, value |-> EmptyDict, logged |-> fetched.logged]
        ELSE [raised |-> FALSE, value |-> processed.value, logged |-> <<>>]

worker(ep, cl, limit, offset) ==
    LET fetched == execute_sparql_query(ep, limit, offset)
        processed == process_wikidata_results(fetched.value, cl)
    IN  IF fetched.raised \/ processed.raised
        THEN [raised |-> FALSE, value |-> EmptyDict,
              logged |-> Append(fetched.logged, "ERROR: Error in worker")]
        ELSE [raised |-> FALSE, value |-> processed.value, logged |-> <<>>]

(***************************************************************************)
(* generate_csv_files: the files it writes, file name -> rows.             *)
(***************************************************************************)
\* Mutant: the file name does not depend on the claim.
FileName_Fixed(claim_name) == <<"claim", "_mapping.csv">>

FileName(claim_name) == <<claim_name, "_mapping.csv">>

RECURSIVE CsvRows(_, _, _, _)
CsvRows(data, claim_name, i, rows) ==
    IF i > Len(data.keys) THEN rows
    ELSE LET ror_id == data.keys[i]
             values == data.val[ror_id]
         IN  CsvRows(data, claim_name, i + 1,
                 IF Truthy(values[claim_name])
                 THEN Append(rows, <<ror_id, values["wikidata_id"], values[claim_name]>>)
                 ELSE rows)

RECURSIVE CsvLoop(_, _, _, _)
CsvLoop(data, cl, i, fs) ==
    IF i > Len(cl) THEN fs
    ELSE LET claim_name == cl[i].name
             rows == CsvRows(data, claim_name, 1,
                             << <<"ROR ID", "Wikidata ID", claim_name>> >>)
         IN  CsvLoop(data, cl, i + 1,
                 [f \in DOMAIN fs \cup {FileName(claim_name)} |->
                     IF f = FileName(claim_name) THEN rows ELSE fs[f]])

generate_csv_files(data, cl, fs) == CsvLoop(data, cl, 1, fs)

CsvLogged(cl) ==
    [i \in 1..Len(cl) + 1 |->
        IF i <= Len(cl) THEN "INFO: Generated CSV file"
        ELSE "INFO: CSV files have been generated"]

\* main's merge loop: for result in results: all_data.update(result)
\* Mutant: a record already in all_data is kept (the earlier page wins).
RECURSIVE MergeLoop_KeepFirst(_, _, _)
MergeLoop_KeepFirst(rs, i, acc) ==
    IF i > Len(rs) THEN acc
    ELSE MergeLoop_KeepFirst(rs, i + 1, DictUpdate(rs[i], acc))

RECURSIVE MergeLoop(_, _, _)
MergeLoop(rs, i, acc) ==
    IF i > Len(rs) THEN acc
    ELSE MergeLoop(rs, i + 1, DictUpdate(acc, rs[i]))

Init ==
    /\ pc = "parse"
    /\ args \in [input_file : InputFiles, endpoint : Endpoints,
                 limit : Limits, offset : Offsets]
    /\ locals = {"args"}
    /\ claims = <<>>
    /\ query = <<>>
    /\ pool = "none"
    /\ offsets = <<>>
    /\ nextTask = 1
    /\ inflight = {}
    /\ requests = <<>>
    /\ results = <<>>
    /\ all_data = EmptyDict
    /\ dirs = {}
    /\ files = <<>>
    /\ log = <<>>

(***************************************************************************)
(* main                                                                    *)
(***************************************************************************)
\* claims = parse_json_claims(args.input_file)
ParseClaims ==
    /\ pc = "parse"
    /\ LET r == parse_json_claims(args.input_file)
       IN  /\ log' = LogAll(log, r.logged, 1)
           /\ IF r.raised
              THEN /\ pc' = "except"
                   /\ UNCHANGED <<claims, locals>>
              ELSE /\ pc' = "query"
                   /\ claims' = r.value
                   /\ locals' = locals \cup {"claims"}
    /\ UNCHANGED <<args, query, pool, offsets, nextTask, inflight,
                   requests, results, all_data, dirs, files>>

\* query = generate_sparql_query(claims)
BuildQuery ==
    /\ pc = "query"
    /\ query' = generate_sparql_query(claims)
    /\ locals' = locals \cup {"query"}
    /\ pc' = "pool"
    /\ UNCHANGED <<args, claims, pool, offsets, nextTask, inflight,
                   requests, results, all_data, dirs, files, log>>

\* pool = multiprocessing.Pool(5); worker_func = partial(...)
CreatePool ==
    /\ pc = "pool"
    /\ pool' = "open"
    /\ locals' = locals \cup {"pool", "worker_func"}
    /\ pc' = "offsets"
    /\ UNCHANGED <<args, claims, query, offsets, nextTask, inflight,
                   requests, results, all_data, dirs, files, log>>

\* offsets = range(args.offset, args.offset + args.limit * 20, args.limit)
ComputeOffsets ==
    /\ pc = "offsets"
    /\ IF args.limit = 0
       THEN /\ pc' = "except"
            /\ UNCHANGED <<offsets, locals>>
       ELSE /\ offsets' = Range(args.offset, args.offset + args.limit * NumPages,
                                args.limit)
            /\ locals' = locals \cup {"offsets"}
            /\ pc' = "map"
    /\ UNCHANGED <<args, claims, query, pool, nextTask, inflight,
                   requests, results, all_data, dirs, files, log>>

\* results = pool.map(worker_func, offsets): the tasks are queued, one per
\* offset (chunksize is 1 for 20 items on 5 workers), and main blocks.
MapDispatch ==
    /\ pc = "map"
    /\ nextTask' = 1
    /\ inflight' = {}
    /\ results' = <<>>
    /\ pc' = "wait"
    /\ UNCHANGED <<args, locals, claims, query, pool, offsets,
                   requests, all_data, dirs, files, log>>

\* A pool worker takes the next task from the queue and calls
\* worker_func(offset), which sends the GET.
\* Mutant: a worker takes a new task while it still runs one.
IdleWorkers_Always == PoolSize

IdleWorkers == PoolSize - Cardinality(inflight)

TaskTaken(k) == nextTask' = k + 1

WorkerTake ==
    /\ pc = "wait"
    /\ pool = "open"
    /\ nextTask <= Len(offsets)
    /\ IdleWorkers > 0
    /\ requests' = Count(requests, offsets[nextTask])
    /\ inflight' = inflight \cup {nextTask}
    /\ TaskTaken(nextTask)
    /\ UNCHANGED <<pc, args, locals, claims, query, pool, offsets,
                   results, all_data, dirs, files, log>>

\* The response (or the failure) arrives; worker() returns and the pool
\* stores what it returned at the task's index.
ResultSlot(k) == k

WorkerFinish(k) ==
    /\ pc = "wait"
    /\ k \in inflight
    /\ LET r == worker(args.endpoint, claims, args.limit, offsets[k])
       IN  /\ results' = results @@
                         (ResultSlot(k) :> IF r.raised THEN Exception ELSE r.value)
           /\ log' = LogAll(log, r.logged, 1)
    /\ inflight' = inflight \ {k}
    /\ UNCHANGED <<pc, args, locals, claims, query, pool, offsets,
                   nextTask, requests, all_data, dirs, files>>

\* pool.map returns once every task has a result; a task that raised makes
\* map raise in main.
\* Mutant: map returns once every task has been taken.
MapReady_AllTaken == nextTask > Len(offsets)

MapReady == nextTask > Len(offsets) /\ inflight = {}

MapReturn ==
    /\ pc = "wait"
    /\ MapReady
    /\ IF \E k \in DOMAIN results : IsException(results[k])
       THEN pc' = "except" /\ UNCHANGED locals
       ELSE pc' = "merge" /\ locals' = locals \cup {"results"}
    /\ UNCHANGED <<args, claims, query, pool, offsets, nextTask,
                   inflight, requests, results, all_data, dirs, files, log>>

\* all_data = {}; for result in results: all_data.update(result)
MapResults == [k \in 1..Len(offsets) |-> results[k]]

Merge ==
    /\ pc = "merge"
    /\ all_data' = MergeLoop(MapResults, 1, EmptyDict)
    /\ locals' = locals \cup {"all_data"}
    /\ pc' = "csv"
    /\ UNCHANGED <<args, claims, query, pool, offsets, nextTask,
                   inflight, requests, results, dirs, files, log>>

\* generate_csv_files(all_data, args.output_directory, claims); logger.info
GenerateCsv ==
    /\ pc = "csv"
    /\ dirs' = dirs \cup {"output_directory"}
    /\ files' = generate_csv_files(all_data, claims, files)
    /\ log' = LogAll(log, CsvLogged(claims), 1)
    /\ pc' = "finally"
    /\ UNCHANGED <<args, locals, claims, query, pool, offsets, nextTask,
                   inflight, requests, results, all_data>>

\* except Exception as e: logger.error(...)
Except ==
    /\ pc = "except"
    /\ log' = Count(log, "ERROR: An error occurred")
    /\ pc' = "finally"
    /\ UNCHANGED <<args, locals, claims, query, pool, offsets, nextTask,
                   inflight, requests, results, all_data, dirs, files>>

\* finally: if 'pool' in locals(): pool.close()
\* Mutant: the test looks in the wrong namespace and never finds the pool.
PoolInLocals_Never == "pool" \in {}

PoolInLocals == "pool" \in locals

Finally ==
    /\ pc = "finally"
    /\ IF PoolInLocals
       THEN IF pool = "none"
            THEN pc' = "crashed" /\ pool' = pool   \* NameError leaves main
            ELSE pc' = "join" /\ pool' = "closed"
       ELSE pc' = "done" /\ pool' = pool
    /\ UNCHANGED <<args, locals, claims, query, offsets, nextTask,
                   inflight, requests, results, all_data, dirs, files, log>>

\* pool.join(), then main returns
JoinPool ==
    /\ pc = "join"
    /\ pool' = "joined"
    /\ pc' = "done"
    /\ UNCHANGED <<args, locals, claims, query, offsets, nextTask,
                   inflight, requests, results, all_data, dirs, files, log>>

(***************************************************************************)
(* The whole program.                                                      *)
(***************************************************************************)
Next ==
    \/ ParseClaims
    \/ BuildQuery
    \/ CreatePool
    \/ ComputeOffsets
    \/ MapDispatch
    \/ WorkerTake
    \/ \E k \in 1..NumPages : WorkerFinish(k)
    \/ MapReturn
    \/ Merge
    \/ GenerateCsv
    \/ Except
    \/ Finally
    \/ JoinPool

Spec == Init /\ [][Next]_vars

(***************************************************************************)
(* generate_sparql_query on every claim spec: main up to the query.        *)
(***************************************************************************)
InitQuery ==
    /\ pc = "parse"
    /\ args \in [input_file : {Unreadable, Malformed} \cup {JsonObject(cl) : cl \in ClaimSpecs},
                 endpoint : Endpoints, limit : Limits, offset : Offsets]
    /\ locals = {"args"}
    /\ claims = <<>>
    /\ query = <<>>
    /\ pool = "none"
    /\ offsets = <<>>
    /\ nextTask = 1
    /\ inflight = {}
    /\ requests = <<>>
    /\ results = <<>>
    /\ all_data = EmptyDict
    /\ dirs = {}
    /\ files = <<>>
    /\ log = <<>>

NextQuery ==
    \/ ParseClaims
    \/ BuildQuery

SpecQuery == InitQuery /\ [][NextQuery]_vars

(***************************************************************************)
(* generate_csv_files on every aggregate: main from the point where        *)
(* pool.map has returned, for every claim spec and every result list.      *)
(***************************************************************************)
RECURSIVE WorkerLogs(_, _, _, _)
WorkerLogs(a, offs, k, lg) ==
    IF k > Len(offs) THEN lg
    ELSE WorkerLogs(a, offs, k + 1,
           LogAll(lg, worker(a.endpoint, a.input_file.object, a.limit, offs[k]).logged, 1))

InitCsv ==
    /\ pc = "merge"
    /\ args \in [input_file : {JsonObject(cl) : cl \in ClaimSpecs},
                 endpoint : [rows : RowLists, down : {{}}],
                 limit : {1, 2}, offset : {0}]
    /\ locals = {"args", "claims", "query", "pool", "worker_func", "offsets", "results"}
    /\ claims = args.input_file.object
    /\ query = generate_sparql_query(claims)
    /\ pool = "open"
    /\ offsets = Range(args.offset, args.offset + args.limit * NumPages, args.limit)
    /\ nextTask = NumPages + 1
    /\ inflight = {}
    /\ requests = [o \in {offsets[k] : k \in 1..NumPages} |-> 1]
    /\ results = [k \in 1..NumPages |->
                    worker(args.endpoint, claims, args.limit, offsets[k]).value]
    /\ all_data = EmptyDict
    /\ dirs = {}
    /\ files = <<>>
    /\ log = WorkerLogs(args, offsets, 1, <<>>)

NextCsv ==
    \/ Merge
    \/ GenerateCsv
    \/ Finally
    \/ JoinPool

SpecCsv == InitCsv /\ [][NextCsv]_vars

\* The states InitCsv starts from are the states Spec reaches.
PostMapAgrees ==
    pc = "merge" =>
        /\ locals = {"args", "claims", "query", "pool", "worker_func", "offsets", "results"}
        /\ claims = args.input_file.object
        /\ query = generate_sparql_query(claims)
        /\ pool = "open"
        /\ offsets = Range(args.offset, args.offset + args.limit * NumPages, args.limit)
        /\ nextTask = NumPages + 1
        /\ inflight = {}
        /\ requests = [o \in {offsets[k] : k \in 1..NumPages} |-> 1]
        /\ results = [k \in 1..NumPages |->
                        worker(args.endpoint, claims, args.limit, offsets[k]).value]
        /\ all_data = EmptyDict /\ dirs = {} /\ files = <<>>
        /\ log = WorkerLogs(args, offsets, 1, <<>>)

(***************************************************************************)
(* Properties.                                                             *)
(***************************************************************************)
Dispatched == "offsets" \in locals

Merged == "all_data" \in locals

Loaded == "claims" \in locals

Pages == 1..NumPages

\* What page k is: the offset's request fails, or its rows do not
\* transform, or it yields records.
PageFetch(k) == execute_sparql_query(args.endpoint, args.limit, offsets[k])

PageFailed(k) ==
    \/ HttpFails(args.endpoint, args.limit, offsets[k])
    \/ \E i \in 1..Len(PageFetch(k).value) :
          ~ ({"rorID", "item"} \subseteq DOMAIN PageFetch(k).value[i])

PageRecords(k) == process_wikidata_results(PageFetch(k).value, claims).value

PagesWith(r) == {k \in Pages : r \in DOMAIN results[k].val}

HighestOffsetPage(r) ==
    CHOOSE k \in PagesWith(r) : \A j \in PagesWith(r) : offsets[j] <= offsets[k]

ExpectedOffsets == {args.offset + k * args.limit : k \in 0..(NumPages - 1)}

TotalRequests == Cardinality(DOMAIN requests)

\* C2 as stated: for every limit and offset, once the claim spec has
\* loaded, a finished run has made exactly 20 requests, one per offset
\* start + k*limit, each once.
C2_Original ==
    (pc = "done" /\ Loaded) =>
        /\ TotalRequests = NumPages
        /\ DOMAIN requests = ExpectedOffsets
        /\ \A o \in DOMAIN requests : requests[o] = 1

\* C2 amended: no request is ever made twice or at another offset than
\* start + k*limit, k = 0..19; and for every non-zero limit and every
\* offset, once the claim spec has loaded, a finished run has made exactly
\* 20 requests, one per such offset, whatever the pages returned and
\* whichever requests failed.
C2_TwentyRequests ==
    /\ \A o \in DOMAIN requests : requests[o] = 1
    /\ DOMAIN requests \subseteq ExpectedOffsets
    /\ (pc = "done" /\ Loaded /\ args.limit # 0) =>
          /\ TotalRequests = NumPages
          /\ DOMAIN requests = ExpectedOffsets

C2_Witness ==
    /\ pc = "done"
    /\ args.limit = 1 /\ args.offset = 1
    /\ TotalRequests = NumPages
    /\ \E k \in Pages : PageFailed(k)
    /\ \E k \in Pages : results[k] # EmptyDict
    /\ \E k \in Pages : ~ PageFailed(k) /\ results[k] = EmptyDict

\* C3: whichever page tasks raise (in the request or in the transform),
\* the process does not die and a run whose tasks were dispatched reaches
\* CSV emission; a failed page contributes no record, and every record
\* key of every other page is in the aggregate.
C3_FailedPagesAbsorbed ==
    /\ pc # "crashed"
    /\ (Dispatched /\ pc \in {"finally", "join", "done"}) =>
          /\ \A k \in Pages :
                IF PageFailed(k) THEN results[k] = EmptyDict
                ELSE results[k] = PageRecords(k)
          /\ Merged
          /\ "output_directory" \in dirs
          /\ DOMAIN files = {FileName(n) : n \in ClaimNames(claims)}
          /\ ~ Logged(log, "ERROR: An error occurred")
          /\ \A k \in Pages :
                ~ PageFailed(k) =>
                    \A r \in DOMAIN PageRecords(k).val : r \in DOMAIN all_data.val

C3_Witness ==
    /\ pc = "done"
    /\ Dispatched
    /\ \E k \in Pages : HttpFails(args.endpoint, args.limit, offsets[k])
    /\ \E k \in Pages : PageFailed(k) /\ ~ HttpFails(args.endpoint, args.limit, offsets[k])
    /\ \E k \in Pages : ~ PageFailed(k) /\ results[k] # EmptyDict
    /\ \E f \in DOMAIN files : Len(files[f]) > 1

C3_WitnessAllFail ==
    /\ pc = "done"
    /\ Dispatched
    /\ \A k \in Pages : PageFailed(k)
    /\ DOMAIN files # {}

Header(c) == <<"ROR ID", "Wikidata ID", c>>

Position(seq, x) == CHOOSE i \in 1..Len(seq) : seq[i] = x

HasValue(data, r, c) == data.val[r][c] # None /\ data.val[r][c] # ""

\* C4: the CSV written for claim c is the header ["ROR ID", "Wikidata ID", c]
\* and then, for exactly the registry identifiers whose record has a value
\* for c that is neither null nor empty, one row (registry id, secondary id,
\* value), in the order in which the aggregate iterates.
C4_CsvRows ==
    dirs # {} =>
        \A i \in 1..Len(claims) :
            LET c == claims[i].name
                f == files[FileName(c)]
            IN  /\ f[1] = Header(c)
                /\ \A j \in 2..Len(f) :
                      /\ f[j][1] \in DOMAIN all_data.val
                      /\ HasValue(all_data, f[j][1], c)
                      /\ f[j] = <<f[j][1], all_data.val[f[j][1]]["wikidata_id"],
                                  all_data.val[f[j][1]][c]>>
                /\ \A r \in DOMAIN all_data.val :
                      HasValue(all_data, r, c) =>
                          Cardinality({j \in 2..Len(f) : f[j][1] = r}) = 1
                /\ \A j, k \in 2..Len(f) :
                      j < k => Position(all_data.keys, f[j][1])
                                 < Position(all_data.keys, f[k][1])

C4_Witness ==
    /\ dirs # {}
    /\ \E i \in 1..Len(claims) :
          LET f == files[FileName(claims[i].name)]
          IN  Len(f) = 3 /\ f[2][1] = "r2" /\ f[3][1] = "r1"
    /\ \E i \in 1..Len(claims) :
          LET c == claims[i].name
          IN  /\ Len(files[FileName(c)]) = 1
              /\ \E r \in DOMAIN all_data.val : all_data.val[r][c] = None
              /\ \E r \in DOMAIN all_data.val : all_data.val[r][c] = ""

\* C5 as stated: after the CSV emitter there are as many files as the
\* claim spec has entries.
C5_Original ==
    dirs # {} => Cardinality(DOMAIN files) = Len(claims)

\* C5 amended: after the CSV emitter there is exactly one file
\* {claim_name}_mapping.csv per distinct claim name of the spec, so as many
\* files as the spec has distinct names (as many as it has entries when no
\* two entries share a name), and none for the empty spec; before it there
\* is no file.
C5_OneFilePerName ==
    /\ dirs = {} => files = <<>>
    /\ dirs # {} =>
          /\ DOMAIN files = {<<claims[i].name, "_mapping.csv">> : i \in 1..Len(claims)}
          /\ Cardinality(DOMAIN files) = Cardinality(ClaimNames(claims))
          /\ (\A i, j \in 1..Len(claims) : i # j => claims[i].name # claims[j].name)
                => Cardinality(DOMAIN files) = Len(claims)
          /\ claims = <<>> => files = <<>>

C5_Witness ==
    /\ pc = "done"
    /\ Len(claims) = 2
    /\ claims[1].name = claims[2].name
    /\ Cardinality(DOMAIN files) = 1

C5_WitnessDistinct ==
    /\ pc = "done"
    /\ Len(claims) = 2
    /\ claims[1].name # claims[2].name
    /\ Cardinality(DOMAIN files) = 2

C5_WitnessEmpty ==
    /\ pc = "done"
    /\ dirs # {}
    /\ claims = <<>>
    /\ files = <<>>

LoadFails == args.input_file.kind # "object"

\* C6: when the claim spec cannot be loaded, parse_json_claims logs the
\* error and raises; main never gets past the load: no pool, no request,
\* no directory, no file; the error is logged at the top level and main
\* returns.
C6_LoadFailureStopsRun ==
    LoadFails =>
        /\ pc \in {"parse", "except", "finally", "done"}
        /\ ~ Loaded
        /\ pool = "none" /\ "pool" \notin locals
        /\ requests = <<>> /\ inflight = {} /\ results = <<>>
        /\ dirs = {} /\ files = <<>>
        /\ pc # "parse" =>
              IF args.input_file.kind = "malformed"
              THEN Logged(log, "ERROR: Error parsing JSON file")
              ELSE Logged(log, "ERROR: Error reading file")
        /\ pc \in {"finally", "done"} => Logged(log, "ERROR: An error occurred")
        /\ pc # "done" => ENABLED Next

C6_Witness ==
    /\ LoadFails
    /\ pc = "done"
    /\ Logged(log, "ERROR: Error parsing JSON file")
    /\ Logged(log, "ERROR: An error occurred")

\* C7: main never dies in its cleanup; when it has returned, the pool, if
\* it was created, is joined, and otherwise was never touched; and the
\* pool is joined only from closed, closed only from open.
C7_PoolClosedThenJoined ==
    /\ [](/\ pc # "crashed"
          /\ pc = "done" => (IF "pool" \in locals THEN pool = "joined" ELSE pool = "none")
          /\ "pool" \notin locals => pool = "none")
    /\ [][/\ pool' = "joined" /\ pool # "joined" => pool = "closed"
          /\ pool' = "closed" /\ pool # "closed" => pool = "open"
          /\ pc' = "done" /\ pc # "done" => pool' \in {"none", "joined"}]_vars

C7_Witness ==
    /\ pc = "done"
    /\ pool = "joined"
    /\ args.limit = 0
    /\ Logged(log, "ERROR: An error occurred")

C7_WitnessNoPool ==
    /\ pc = "done"
    /\ pool = "none"
    /\ LoadFails

AllReturned ==
    /\ Len(offsets) = NumPages
    /\ DOMAIN results = Pages
    /\ inflight = {}
    /\ nextTask = NumPages + 1

\* C9: main merges and writes only once all 20 tasks have returned; while
\* any task is pending or in flight the aggregate is empty and nothing is
\* written, so no worker writes to the aggregate.
C9_JoinAllBarrier ==
    /\ (pc \in {"merge", "csv"} \/ Merged \/ all_data # EmptyDict
           \/ files # <<>> \/ dirs # {}) => AllReturned
    /\ (pc = "wait" \/ ~ AllReturned) =>
          /\ all_data = EmptyDict /\ ~ Merged
          /\ files = <<>> /\ dirs = {}

C9_Witness ==
    /\ pc = "wait"
    /\ Cardinality(DOMAIN results) = NumPages - 1
    /\ Cardinality(inflight) = 1
    /\ \E k \in DOMAIN results : results[k] # EmptyDict

\* Requests sent and not yet answered (each offset is requested once).
RequestsInFlight == Cardinality(DOMAIN requests) - Cardinality(DOMAIN results)

\* C10: at most 5 requests are in flight; a task is in flight from the
\* moment a worker takes it until that worker has returned its result, it
\* is taken once, and a new task is taken only by a worker that holds none.
C10_AtMostFiveInFlight ==
    /\ \A o \in DOMAIN requests : requests[o] = 1
    /\ RequestsInFlight <= PoolSize
    /\ RequestsInFlight = Cardinality(inflight)
    /\ \A k \in inflight : k < nextTask /\ k \notin DOMAIN results
    /\ \A k \in 1..(nextTask - 1) : k \in inflight \/ k \in DOMAIN results
    /\ \A k \in DOMAIN results : k < nextTask

C10_Witness ==
    /\ RequestsInFlight = PoolSize
    /\ nextTask <= NumPages
    /\ DOMAIN results # {}

\* C8: the query selects ?item ?rorID and then ?name for each claim in spec
\* order, nothing else; its WHERE block is the ?item wdt:P6782 ?rorID
\* pattern and then one OPTIONAL per claim, the i-th binding wdt:<id_i> to
\* ?<name_i>; for the empty spec it selects ?item ?rorID with no OPTIONAL.
C8_QueryShape ==
    "query" \in locals =>
        /\ Len(query.select) = 2 + Len(claims)
        /\ query.select[1] = <<"?", "item">> /\ query.select[2] = <<"?", "rorID">>
        /\ \A i \in 1..Len(claims) : query.select[2 + i] = <<"?", claims[i].name>>
        /\ Len(query.where) = 1 + Len(claims)
        /\ query.where[1] = [kind |-> "TRIPLE", s |-> <<"?", "item">>,
                             p |-> <<"wdt:", <<"P", 6782>> >>, o |-> <<"?", "rorID">>]
        /\ \A i \in 1..Len(claims) :
              query.where[1 + i] = [kind |-> "OPTIONAL", s |-> <<"?", "item">>,
                                    p |-> <<"wdt:", claims[i].id>>,
                                    o |-> <<"?", claims[i].name>>]
        /\ Cardinality({i \in 1..Len(query.where) : query.where[i].kind = "OPTIONAL"})
              = Len(claims)
        /\ claims = <<>> =>
              query.select = << <<"?", "item">>, <<"?", "rorID">> >>

C8_Witness ==
    /\ "query" \in locals
    /\ Len(claims) = 2
    /\ claims[1].id = <<"P", 2>> /\ claims[2].id = <<"P", 1>>
    /\ claims[1].name = claims[2].name

C8_WitnessEmpty == "query" \in locals /\ claims = <<>> /\ Len(query.where) = 1

====
